---- MODULE Spec2Model ----
(***************************************************************************)
(* Model of scripts/impute.py, the gap-filling imputation engine, and of   *)
(* scripts/heatwave_detect.py, the heatwave detector that reads its output.*)
(*                                                                         *)
(* Numbers.  The program computes in float64.  The model computes in exact *)
(* rationals <<numerator, denominator>> (denominator > 0, lowest terms);   *)
(* the float "not a number" that marks a missing reading is <<0, 0>>.      *)
(* Rounding error of float64 is therefore not modelled.                    *)
(*                                                                         *)
(* Indices.  Row positions, gap starts and loop counters are 0-based as in *)
(* the program; a TLA+ sequence s holds position p at s[p + 1].            *)
(***************************************************************************)
EXTENDS Integers, Sequences, FiniteSets, TLC

VARIABLES
    raw,         \* the frame read from the CSV, in file order (impute.py:43-45)
    df,          \* main's df: the cleaned, sorted frame
    profiles,    \* main's profiles: var -> ((station, month, hour) -> mean)
    stations,    \* main's stations: sorted unique station ids
    si,          \* main's loop index i over stations (0-based)
    df_station,  \* impute_station's working copy of one station's rows
    methods,     \* impute_station's methods: per row, the list of tags
    vi,          \* impute_station's position in "for var in IMPUTE_VARS"
    is_missing,  \* the boolean mask handed to find_gaps
    gaps,        \* the list find_gaps returned
    gi,          \* impute_station's position in "for start, length in gaps"
    last,        \* the locals of the gap iteration that ran last
    results,     \* main's results: the imputed frame of every finished station
    df_out,      \* main's df_out
    first_out,   \* df_out of the first run, kept when the engine is run again
    run,         \* 1 in the first run of the engine, 2 in the re-run
    pc           \* position in main / impute_station

\* heatwave_detect.py
VARIABLES
    grouped,     \* load_daily's counts, tmax, tmin: one entry per calendar day
    daily,       \* the frame load_daily returns
    thresholds,  \* thresholds[stn]: day of year -> ctx and ctn threshold
    hw_rows,     \* detect_heatwaves' rows: the station's days with their flags
    events,      \* detect_heatwaves' events
    ti           \* detect_heatwaves' position in the loop over the two types

hw_vars == <<grouped, daily, thresholds, hw_rows, events, ti>>

vars == <<raw, df, profiles, stations, si, df_station, methods, vi,
          is_missing, gaps, gi, last, results, df_out, first_out, run, pc,
          grouped, daily, thresholds, hw_rows, events, ti>>

\* the heatwave detector has not been started
HeatwaveIdle ==
    /\ grouped = <<>>
    /\ daily = <<>>
    /\ thresholds = <<>>
    /\ hw_rows = <<>>
    /\ events = <<>>
    /\ ti = 0

----------------------------------------------------------------------------
(* Bounds of the model *)

\* rows of the station whose columns are enumerated exhaustively
MaxRows == 8

\* number of value patterns the valid readings are drawn from
NumPatterns == 3

\* rows of the hourly-contiguous station that carries the long gaps
LongRows == 27

\* longest mask handed to find_gaps on its own
MaxMaskLen == 6

\* rows of the series impute_gap_strategy_b is run on with a free profile
BRows == 5

\* calendar days of the series the heatwave detector is run on
MaxDays == 6

----------------------------------------------------------------------------
(* Program constants *)

IMPUTE_VARS == <<"temperature", "rh", "wind_speed">>

\* "if length <= 2": the longest gap Strategy A takes
ShortGapMax == 2

\* "if length > 24": the longest gap Strategy B takes
LongGapMax == 24

\* upper physical bound of relative humidity
RhMax == 100

\* the range of Timestamp.hour
HoursPerDay == 24

\* heatwave_detect.py: minimum valid hourly readings per day
MIN_HOURLY == 18

\* heatwave_detect.py: minimum consecutive days for a heatwave
HW_MIN_DAYS == 3

----------------------------------------------------------------------------
(* float64 values as exact rationals; NaN *)

NaN == <<0, 0>>

isnan(x) == x[2] = 0

Abs(n) == IF n < 0 THEN -n ELSE n

RECURSIVE GCD(_, _)
GCD(a, b) == IF b = 0 THEN a ELSE GCD(b, a % b)

\* the rational n/d (d > 0) in lowest terms
Frac(n, d) == LET g == GCD(Abs(n), d) IN <<n \div g, d \div g>>

Num(n) == <<n, 1>>

\* x + y; NaN if either is NaN
RAdd(x, y) ==
    IF isnan(x) \/ isnan(y) THEN NaN
    ELSE Frac(x[1] * y[2] + y[1] * x[2], x[2] * y[2])

\* x - y; NaN if either is NaN
RSub(x, y) ==
    IF isnan(x) \/ isnan(y) THEN NaN
    ELSE Frac(x[1] * y[2] - y[1] * x[2], x[2] * y[2])

\* x * y; NaN if either is NaN
RMul(x, y) ==
    IF isnan(x) \/ isnan(y) THEN NaN
    ELSE Frac(x[1] * y[1], x[2] * y[2])

\* x / k for an integer k > 0
RDivInt(x, k) == IF isnan(x) THEN NaN ELSE Frac(x[1], x[2] * k)

\* x < y; every comparison with NaN is false
RLess(x, y) == ~isnan(x) /\ ~isnan(y) /\ x[1] * y[2] < y[1] * x[2]

RLeq(x, y) == ~isnan(x) /\ ~isnan(y) /\ x[1] * y[2] <= y[1] * x[2]

\* np.linspace(start, stop, num)[j], j in 0..num-1, num >= 2:
\* start + j * step with step = (stop - start) / (num - 1)
linspace(start, stop, num, j) ==
    RAdd(start, RMul(Num(j), RDivInt(RSub(stop, start), num - 1)))

\* np.clip(x, lo, None); NaN passes through
ClipLow(x, lo) == IF RLess(x, lo) THEN lo ELSE x

\* np.clip(x, lo, hi); NaN passes through
ClipBoth(x, lo, hi) ==
    IF RLess(x, lo) THEN lo ELSE IF RLess(hi, x) THEN hi ELSE x

----------------------------------------------------------------------------
(* find_gaps *)

\* variant of RunEnd: the inner loop steps once more, over the position that
\* ended the run
RECURSIVE RunEndSkipsOne(_, _)
RunEndSkipsOne(mask, i) ==
    IF i < Len(mask) /\ mask[i + 1] THEN RunEndSkipsOne(mask, i + 1)
    ELSE IF i < Len(mask) THEN i + 1 ELSE i

\* the inner loop "while i < n and is_missing[i]: i += 1": the value of i
\* when it exits
RECURSIVE RunEnd(_, _)
RunEnd(mask, i) ==
    IF i < Len(mask) /\ mask[i + 1] THEN RunEnd(mask, i + 1) ELSE i

\* the outer loop "while i < n", from position i with the gaps found so far
RECURSIVE FindGapsFrom(_, _, _)
FindGapsFrom(mask, i, found) ==
    IF ~(i < Len(mask)) THEN found
    ELSE IF mask[i + 1]
         THEN LET start == i
                  e == RunEnd(mask, i)
              IN  FindGapsFrom(mask, e, Append(found, <<start, e - start>>))
         ELSE FindGapsFrom(mask, i + 1, found)

find_gaps(mask) == FindGapsFrom(mask, 0, <<>>)

----------------------------------------------------------------------------
(* load_and_clean *)

\* rows are records; a row of raw has the fields station, date and one field
\* per variable.  date counts hours; wind_speed is taken in m/s, i.e. after
\* the scaling of line 57, which keeps sign, order and missingness.

\* Timestamp.hour
HourOf(date) == date % HoursPerDay

\* Timestamp.month, on a calendar of twelve 30-day months
MonthOf(date) == ((date \div (HoursPerDay * 30)) % 12) + 1

\* the value cleaning of one row: cap rh at 100, add month and hour
CleanRow(r) ==
    [f \in DOMAIN r \cup {"month", "hour"} |->
        CASE f = "month" -> MonthOf(r.date)
          [] f = "hour" -> HourOf(r.date)
          [] f = "rh" -> IF RLess(Num(RhMax), r.rh) THEN Num(RhMax) ELSE r.rh
          [] OTHER -> r[f]]

\* the order of sort_values(["station", "date"])
RowBefore(a, b) ==
    a.station < b.station \/ (a.station = b.station /\ a.date < b.date)

\* one insertion of the stable sort: r goes behind every row not after it
RECURSIVE InsertRow(_, _)
InsertRow(s, r) ==
    IF s = <<>> THEN <<r>>
    ELSE IF RowBefore(r, s[Len(s)])
         THEN Append(InsertRow(SubSeq(s, 1, Len(s) - 1), r), s[Len(s)])
         ELSE Append(s, r)

\* sort_values(["station", "date"]) followed by reset_index: a stable sort
RECURSIVE SortRows(_)
SortRows(s) ==
    IF s = <<>> THEN <<>>
    ELSE InsertRow(SortRows(SubSeq(s, 1, Len(s) - 1)), s[Len(s)])

load_and_clean(rows) == SortRows([j \in DOMAIN rows |-> CleanRow(rows[j])])

----------------------------------------------------------------------------
(* build_diurnal_profiles *)

VarSet == {IMPUTE_VARS[j] : j \in DOMAIN IMPUTE_VARS}

\* the groupby key of a row
KeyOf(r) == <<r.station, r.month, r.hour>>

RECURSIVE SumSeq(_)
SumSeq(s) == IF s = <<>> THEN Num(0) ELSE RAdd(s[1], SumSeq(Tail(s)))

\* the values of column var that are valid and belong to group key
GroupValues(frame, var, key) ==
    LET rows == SelectSeq(frame, LAMBDA r: KeyOf(r) = key /\ ~isnan(r[var]))
    IN  [j \in DOMAIN rows |-> rows[j][var]]

\* groupby(...)[var].mean() of one group: the mean of its valid values, NaN
\* for a group without one
GroupMean(frame, var, key) ==
    LET vals == GroupValues(frame, var, key)
    IN  IF vals = <<>> THEN NaN ELSE RDivInt(SumSeq(vals), Len(vals))

build_diurnal_profiles(frame) ==
    [var \in VarSet |->
        [key \in {KeyOf(frame[j]) : j \in DOMAIN frame} |->
            GroupMean(frame, var, key)]]

\* profiles[var].get(key, np.nan)
ProfileGet(prof, var, key) ==
    IF key \in DOMAIN prof[var] THEN prof[var][key] ELSE NaN

----------------------------------------------------------------------------
(* physical bounds *)

\* variant of EnforceBounds: rh is clipped from below only
EnforceBoundsNoUpper(var, x) ==
    IF var = "rh" \/ var = "wind_speed" THEN ClipLow(x, Num(0)) ELSE x

\* "if var == rh: clip(0, 100) elif var == wind_speed: clip(0, None)"
EnforceBounds(var, x) ==
    IF var = "rh" THEN ClipBoth(x, Num(0), Num(RhMax))
    ELSE IF var = "wind_speed" THEN ClipLow(x, Num(0))
    ELSE x

----------------------------------------------------------------------------
(* impute_gap_strategy_b *)

\* list(range(start, start + length))
Indices(start, length) == [j \in 1..length |-> start + j - 1]

\* the column value left of the gap, NaN at the start of the series
BeforeVal(st_rows, var, first_idx) ==
    IF first_idx > 0 THEN st_rows[first_idx][var] ELSE NaN

\* the column value right of the gap, NaN at the end of the series
AfterVal(st_rows, var, last_idx) ==
    IF last_idx < Len(st_rows) - 1 THEN st_rows[last_idx + 2][var] ELSE NaN

\* variant of BlendOffsets: the weights run from 0 to 1
BlendOffsetsRampUp(before_offset, after_offset, gap_len, j) ==
    IF ~isnan(before_offset) /\ ~isnan(after_offset)
    THEN LET w == linspace(Num(0), Num(1), gap_len, j)
         IN  RAdd(RMul(w, before_offset), RMul(RSub(Num(1), w), after_offset))
    ELSE IF ~isnan(before_offset) THEN before_offset
    ELSE IF ~isnan(after_offset) THEN after_offset
    ELSE Num(0)

\* "Blend offset linearly across the gap": offsets[j], j in 0..gap_len-1
BlendOffsets(before_offset, after_offset, gap_len, j) ==
    IF ~isnan(before_offset) /\ ~isnan(after_offset)
    THEN LET w == linspace(Num(1), Num(0), gap_len, j)
         IN  RAdd(RMul(w, before_offset), RMul(RSub(Num(1), w), after_offset))
    ELSE IF ~isnan(before_offset) THEN before_offset
    ELSE IF ~isnan(after_offset) THEN after_offset
    ELSE Num(0)

\* the locals of impute_gap_strategy_b up to "result = profile_vals + offsets"
StrategyBLocals(st_rows, indices, var, prof) ==
    LET station == st_rows[1].station
        gap_len == Len(indices)
        profile_vals ==
            [j \in 1..gap_len |->
                ProfileGet(prof, var, <<station, st_rows[indices[j] + 1].month,
                                        st_rows[indices[j] + 1].hour>>)]
        first_idx == indices[1]
        last_idx == indices[gap_len]
        before_val == BeforeVal(st_rows, var, first_idx)
        after_val == AfterVal(st_rows, var, last_idx)
        before_profile ==
            IF ~isnan(before_val) /\ first_idx > 0
            THEN ProfileGet(prof, var, <<station, st_rows[first_idx].month,
                                         st_rows[first_idx].hour>>)
            ELSE NaN
        after_profile ==
            IF ~isnan(after_val) /\ last_idx < Len(st_rows) - 1
            THEN ProfileGet(prof, var, <<station, st_rows[last_idx + 2].month,
                                         st_rows[last_idx + 2].hour>>)
            ELSE NaN
        before_offset ==
            IF ~isnan(before_val) /\ ~isnan(before_profile)
            THEN RSub(before_val, before_profile) ELSE NaN
        after_offset ==
            IF ~isnan(after_val) /\ ~isnan(after_profile)
            THEN RSub(after_val, after_profile) ELSE NaN
    IN  [profile_vals |-> profile_vals,
         before_val |-> before_val,
         after_val |-> after_val,
         before_offset |-> before_offset,
         after_offset |-> after_offset,
         result |->
            [j \in 1..gap_len |->
                RAdd(profile_vals[j],
                     BlendOffsets(before_offset, after_offset, gap_len, j - 1))]]

\* np.all(np.isnan(a))
AllNaN(a) == \A j \in DOMAIN a : isnan(a[j])

\* variant of impute_gap_strategy_b: a gap with one position without profile
\* data is given up as a whole
impute_gap_all_or_nothing(st_rows, indices, var, prof) ==
    LET loc == StrategyBLocals(st_rows, indices, var, prof)
    IN  IF \E j \in DOMAIN loc.profile_vals : isnan(loc.profile_vals[j])
        THEN [j \in 1..Len(indices) |-> NaN]
        ELSE [j \in 1..Len(indices) |-> EnforceBounds(var, loc.result[j])]

\* the array impute_gap_strategy_b returns
impute_gap_strategy_b(st_rows, indices, var, prof) ==
    LET loc == StrategyBLocals(st_rows, indices, var, prof)
    IN  IF AllNaN(loc.profile_vals)
        THEN [j \in 1..Len(indices) |-> NaN]
        ELSE [j \in 1..Len(indices) |-> EnforceBounds(var, loc.result[j])]

----------------------------------------------------------------------------
(* impute_station: the pieces of one gap iteration *)

\* variant of StrategyAValue: length + 1 points, so that the last position of
\* the gap gets the right endpoint
StrategyAValueEndpoints(before_val, after_val, length, j) ==
    IF ~isnan(before_val) /\ ~isnan(after_val)
    THEN linspace(before_val, after_val, length + 1, j)
    ELSE IF ~isnan(before_val) THEN before_val
    ELSE after_val

\* variant of StrategyAValue: the two flat-fill branches are swapped
StrategyAValueSwapped(before_val, after_val, length, j) ==
    IF ~isnan(before_val) /\ ~isnan(after_val)
    THEN linspace(before_val, after_val, length + 2, j)
    ELSE IF ~isnan(before_val) THEN after_val
    ELSE before_val

\* Strategy A's interp[j - 1], j in 1..length, when a boundary value exists:
\* np.linspace(before_val, after_val, length + 2)[1:-1] or np.full
StrategyAValue(before_val, after_val, length, j) ==
    IF ~isnan(before_val) /\ ~isnan(after_val)
    THEN linspace(before_val, after_val, length + 2, j)
    ELSE IF ~isnan(before_val) THEN before_val
    ELSE after_val

\* variant of WriteCells: the cells are written one row further down
WriteCellsShifted(st_rows, var, start, vals) ==
    [p \in DOMAIN st_rows |->
        IF p - 1 >= start + 1 /\ p - 1 < start + 1 + Len(vals)
        THEN [st_rows[p] EXCEPT ![var] = vals[p - start - 1]]
        ELSE st_rows[p]]

\* variant of WriteCells: the row after the gap is written too, with the last
\* of the values
WriteCellsOneMore(st_rows, var, start, vals) ==
    [p \in DOMAIN st_rows |->
        IF p - 1 >= start /\ p - 1 < start + Len(vals)
        THEN [st_rows[p] EXCEPT ![var] = vals[p - start]]
        ELSE IF p - 1 = start + Len(vals)
             THEN [st_rows[p] EXCEPT ![var] = vals[Len(vals)]]
             ELSE st_rows[p]]

\* df_station.iloc[indices, col(var)] = vals, indices = start..start+Len(vals)-1
WriteCells(st_rows, var, start, vals) ==
    [p \in DOMAIN st_rows |->
        IF p - 1 >= start /\ p - 1 < start + Len(vals)
        THEN [st_rows[p] EXCEPT ![var] = vals[p - start]]
        ELSE st_rows[p]]

\* f"{var}:{strategy}"
Tag(var, strategy) == var \o ":" \o strategy

\* "Record method": the tag is appended to methods[idx] for every idx of the
\* gap.  The comma-separated string methods[idx] is held as the list of its
\* entries; "" is the empty list.
RecordMethod(meths, start, length, tag) ==
    [p \in DOMAIN meths |->
        IF p - 1 >= start /\ p - 1 < start + length
        THEN Append(meths[p], tag)
        ELSE meths[p]]

\* variant of TooLong: no gap is too long
TooLongNever(length) == FALSE

\* "if length > 24: continue"
TooLong(length) == length > LongGapMax

\* "if length <= 2": the gap goes to Strategy A, else to Strategy B
IsShort(length) == length <= ShortGapMax

\* variant of MissingMask: a row counts as missing when any configured
\* variable is missing in it
MissingMaskAnyVar(st_rows, var) ==
    [p \in DOMAIN st_rows |-> \E w \in VarSet : isnan(st_rows[p][w])]

\* df_station[var].isna().values
MissingMask(st_rows, var) == [p \in DOMAIN st_rows |-> isnan(st_rows[p][var])]

\* the locals of a gap iteration, before the first one
NoGap ==
    [var |-> "", start |-> 0, length |-> 0, strategy |-> "none",
     before_val |-> NaN, after_val |-> NaN, profile_vals |-> <<>>,
     before_offset |-> NaN, after_offset |-> NaN,
     result |-> <<>>, filled |-> <<>>]

\* df_station["impute_method"] = methods
WithMethods(st_rows, meths) ==
    [p \in DOMAIN st_rows |->
        [f \in DOMAIN st_rows[p] \cup {"impute_method"} |->
            IF f = "impute_method" THEN meths[p] ELSE st_rows[p][f]]]

----------------------------------------------------------------------------
(* main *)

\* sorted(df["station"].unique())
RECURSIVE SortedSeq(_)
SortedSeq(S) ==
    IF S = {} THEN <<>>
    ELSE LET m == CHOOSE x \in S : \A y \in S : x <= y
         IN  <<m>> \o SortedSeq(S \ {m})

StationsOf(frame) == SortedSeq({frame[j].station : j \in DOMAIN frame})

\* df[df["station"] == st]
RowsOf(frame, st) == SelectSeq(frame, LAMBDA r: r.station = st)

\* pd.concat(results, ignore_index=True)
RECURSIVE Concat(_)
Concat(frames) ==
    IF frames = <<>> THEN <<>> ELSE frames[1] \o Concat(Tail(frames))

----------------------------------------------------------------------------
(* The input frames the model is run on *)

\* the valid readings (wind_speed in m/s; rh before the cap at 100)
ValueTable ==
    [temperature |-> <<20, 24, 31>>,
     rh          |-> <<10, 104, 60>>,
     wind_speed  |-> <<0, 7, 2>>]

\* the reading of variable var at row p of day `day` under value pattern k
PatternValue(var, k, p, day) ==
    Num(ValueTable[var][(((k + 1) * p + day + (k \div 3)) % 3) + 1])

Masks(n) == [1..n -> BOOLEAN]

\* Station 1 of a small frame has MaxRows rows on consecutive days, the
\* same RowsPerDay hours of each day, so that an hour of the day recurs.
RowsPerDay == (MaxRows + 1) \div 2

SmallConfigs ==
    {c \in [focus : VarSet, mask : Masks(MaxRows), pattern : 0..(NumPatterns - 1),
            others : {"none", "same", "shift"},
            order : {"sorted", "reversed", "duplicate", "nextmonth"}] :
        \/ c.order = "sorted" /\ (c.others = "none" \/ c.pattern = 0)
        \/ c.order # "sorted" /\ c.others = "none" /\ c.pattern = 0
                              /\ c.focus = "temperature"}

\* whether variable var is missing at row p of station 1
SmallMissing(c, var, p) ==
    IF var = c.focus \/ c.others = "same" THEN c.mask[p + 1]
    ELSE IF c.others = "shift" THEN c.mask[((p + 1) % MaxRows) + 1]
    ELSE FALSE

SmallDate(c, p) ==
    LET q == IF c.order = "duplicate" /\ p = MaxRows - 1 THEN p - 1 ELSE p
        day == q \div RowsPerDay
    IN  HoursPerDay * day + (q % RowsPerDay)
        + (IF c.order = "nextmonth" /\ day > 0 THEN HoursPerDay * 30 ELSE 0)

SmallRow1(c, p) ==
    [f \in {"station", "date"} \cup VarSet |->
        CASE f = "station" -> 1
          [] f = "date" -> SmallDate(c, p)
          [] OTHER -> IF SmallMissing(c, f, p) THEN NaN
                      ELSE PatternValue(f, c.pattern, p, p \div RowsPerDay)]

\* station 2 (in the frames of value pattern 0) has two rows; row p misses
\* every variable iff mask[p + 1]
SmallRow2(c, p) ==
    [f \in {"station", "date"} \cup VarSet |->
        CASE f = "station" -> 2
          [] f = "date" -> p
          [] OTHER -> IF c.mask[p + 1] THEN NaN
                      ELSE PatternValue(f, c.pattern, p + 1, 1)]

Reverse(s) == [j \in DOMAIN s |-> s[Len(s) + 1 - j]]

SmallFrame(c) ==
    LET rows == [j \in 1..MaxRows |-> SmallRow1(c, j - 1)]
                \o (IF c.pattern = 0
                    THEN [j \in 1..2 |-> SmallRow2(c, j - 1)] ELSE <<>>)
    IN  IF c.order = "reversed" THEN Reverse(rows) ELSE rows

\* A long frame is one station of LongRows hourly rows in which variable
\* focus misses one run of len rows from row start on.
LongConfigs ==
    {c \in [focus : VarSet, pattern : 0..(NumPatterns - 1),
            start : 0..LongRows, len : (ShortGapMax + 1)..LongRows] :
        /\ c.start + c.len <= LongRows
        /\ c.start \in {0, 1, LongRows - c.len}}

LongFrame(c) ==
    [j \in 1..LongRows |->
        [f \in {"station", "date"} \cup VarSet |->
            CASE f = "station" -> 1
              [] f = "date" -> j - 1
              [] OTHER ->
                    IF f = c.focus /\ j - 1 >= c.start /\ j - 1 < c.start + c.len
                    THEN NaN
                    ELSE PatternValue(f, c.pattern, j - 1, (j - 1) \div HoursPerDay)]]

InputFrames ==
    {SmallFrame(c) : c \in SmallConfigs}
        \cup {LongFrame(c) : c \in LongConfigs}
        \cup {<<>>}

----------------------------------------------------------------------------
(* The engine as a state machine: main, with impute_station inlined *)

Init ==
    /\ raw \in InputFrames
    /\ df = <<>>
    /\ profiles = <<>>
    /\ stations = <<>>
    /\ si = 0
    /\ df_station = <<>>
    /\ methods = <<>>
    /\ vi = 0
    /\ is_missing = <<>>
    /\ gaps = <<>>
    /\ gi = 0
    /\ last = NoGap
    /\ results = <<>>
    /\ df_out = <<>>
    /\ first_out = <<>>
    /\ run = 1
    /\ HeatwaveIdle
    /\ pc = "load"

\* df = load_and_clean(INPUT_CSV)
Load ==
    /\ pc = "load"
    /\ df' = load_and_clean(raw)
    /\ pc' = "profiles"
    /\ UNCHANGED hw_vars
    /\ UNCHANGED <<raw, profiles, stations, si, df_station, methods, vi,
                   is_missing, gaps, gi, last, results, df_out, first_out, run>>

\* profiles = build_diurnal_profiles(df); stations = sorted(...)
BuildProfiles ==
    /\ pc = "profiles"
    /\ profiles' = build_diurnal_profiles(df)
    /\ stations' = StationsOf(df)
    /\ si' = 0
    /\ results' = <<>>
    /\ pc' = "stations"
    /\ UNCHANGED hw_vars
    /\ UNCHANGED <<raw, df, df_station, methods, vi, is_missing, gaps, gi,
                   last, df_out, first_out, run>>

\* the next station: df_st = df[df["station"] == st].copy(); impute_station
\* starts: n = len(df_station); methods = [""] * n
BeginStation ==
    /\ pc = "stations"
    /\ si < Len(stations)
    /\ df_station' = RowsOf(df, stations[si + 1])
    /\ methods' = [p \in DOMAIN df_station' |-> <<>>]
    /\ vi' = 0
    /\ last' = NoGap
    /\ pc' = "vars"
    /\ UNCHANGED hw_vars
    /\ UNCHANGED <<raw, df, profiles, stations, si, is_missing, gaps, gi,
                   results, df_out, first_out, run>>

\* the next variable: is_missing = ...isna(); gaps = find_gaps(is_missing)
ScanVar ==
    /\ pc = "vars"
    /\ vi < Len(IMPUTE_VARS)
    /\ is_missing' = MissingMask(df_station, IMPUTE_VARS[vi + 1])
    /\ gaps' = find_gaps(is_missing')
    /\ gi' = 0
    /\ last' = NoGap
    /\ pc' = "gaps"
    /\ UNCHANGED hw_vars
    /\ UNCHANGED <<raw, df, profiles, stations, si, df_station, methods, vi,
                   results, df_out, first_out, run>>

\* a gap iteration that ends in "continue": nothing is written or recorded
SkipGap(var, start, length, why) ==
    /\ gi' = gi + 1
    /\ last' = [NoGap EXCEPT !.var = var, !.start = start, !.length = length,
                             !.strategy = why]
    /\ UNCHANGED hw_vars
    /\ UNCHANGED <<raw, df, profiles, stations, si, df_station, methods, vi,
                   is_missing, gaps, results, df_out, first_out, run, pc>>

\* "if length > 24: continue"
SkipLongGap ==
    /\ pc = "gaps"
    /\ gi < Len(gaps)
    /\ LET var == IMPUTE_VARS[vi + 1]
           start == gaps[gi + 1][1]
           length == gaps[gi + 1][2]
       IN  /\ TooLong(length)
           /\ SkipGap(var, start, length, "skip")

\* Strategy A with at least one boundary value: interpolate, clip, write, tag
StrategyA ==
    /\ pc = "gaps"
    /\ gi < Len(gaps)
    /\ LET var == IMPUTE_VARS[vi + 1]
           start == gaps[gi + 1][1]
           length == gaps[gi + 1][2]
           n == Len(df_station)
           before_val == IF start > 0 THEN df_station[start][var] ELSE NaN
           after_val == IF start + length < n
                        THEN df_station[start + length + 1][var] ELSE NaN
           interp == [j \in 1..length |->
                        EnforceBounds(var,
                            StrategyAValue(before_val, after_val, length, j))]
       IN  /\ ~TooLong(length)
           /\ IsShort(length)
           /\ ~(isnan(before_val) /\ isnan(after_val))
           /\ df_station' = WriteCells(df_station, var, start, interp)
           /\ methods' = RecordMethod(methods, start, length, Tag(var, "A"))
           /\ last' = [NoGap EXCEPT !.var = var, !.start = start,
                                    !.length = length, !.strategy = "A",
                                    !.before_val = before_val,
                                    !.after_val = after_val,
                                    !.filled = interp]
    /\ gi' = gi + 1
    /\ UNCHANGED hw_vars
    /\ UNCHANGED <<raw, df, profiles, stations, si, vi, is_missing, gaps,
                   results, df_out, first_out, run, pc>>

\* Strategy A without a boundary value: "continue  # No boundary values"
StrategyANoBoundary ==
    /\ pc = "gaps"
    /\ gi < Len(gaps)
    /\ LET var == IMPUTE_VARS[vi + 1]
           start == gaps[gi + 1][1]
           length == gaps[gi + 1][2]
           n == Len(df_station)
           before_val == IF start > 0 THEN df_station[start][var] ELSE NaN
           after_val == IF start + length < n
                        THEN df_station[start + length + 1][var] ELSE NaN
       IN  /\ ~TooLong(length)
           /\ IsShort(length)
           /\ isnan(before_val) /\ isnan(after_val)
           /\ SkipGap(var, start, length, "skip")

\* Strategy B with a profile value at some position: write filled, tag
StrategyB ==
    /\ pc = "gaps"
    /\ gi < Len(gaps)
    /\ LET var == IMPUTE_VARS[vi + 1]
           start == gaps[gi + 1][1]
           length == gaps[gi + 1][2]
           indices == Indices(start, length)
           filled == impute_gap_strategy_b(df_station, indices, var, profiles)
           loc == StrategyBLocals(df_station, indices, var, profiles)
       IN  /\ ~TooLong(length)
           /\ ~IsShort(length)
           /\ ~AllNaN(filled)
           /\ df_station' = WriteCells(df_station, var, start, filled)
           /\ methods' = RecordMethod(methods, start, length, Tag(var, "B"))
           /\ last' = [NoGap EXCEPT !.var = var, !.start = start,
                                    !.length = length, !.strategy = "B",
                                    !.before_val = loc.before_val,
                                    !.after_val = loc.after_val,
                                    !.profile_vals = loc.profile_vals,
                                    !.before_offset = loc.before_offset,
                                    !.after_offset = loc.after_offset,
                                    !.result = loc.result,
                                    !.filled = filled]
    /\ gi' = gi + 1
    /\ UNCHANGED hw_vars
    /\ UNCHANGED <<raw, df, profiles, stations, si, vi, is_missing, gaps,
                   results, df_out, first_out, run, pc>>

\* Strategy B returned only NaN: "if np.all(np.isnan(filled)): continue"
StrategyBNoProfile ==
    /\ pc = "gaps"
    /\ gi < Len(gaps)
    /\ LET var == IMPUTE_VARS[vi + 1]
           start == gaps[gi + 1][1]
           length == gaps[gi + 1][2]
           filled == impute_gap_strategy_b(df_station, Indices(start, length),
                                           var, profiles)
       IN  /\ ~TooLong(length)
           /\ ~IsShort(length)
           /\ AllNaN(filled)
           /\ SkipGap(var, start, length, "skip")

\* "for start, length in gaps" is exhausted: on to the next variable
EndVar ==
    /\ pc = "gaps"
    /\ ~(gi < Len(gaps))
    /\ vi' = vi + 1
    /\ pc' = "vars"
    /\ UNCHANGED hw_vars
    /\ UNCHANGED <<raw, df, profiles, stations, si, df_station, methods,
                   is_missing, gaps, gi, last, results, df_out, first_out, run>>

\* variant of EndStation: the profiles are built again, from the frame with
\* the returned rows in place of the station's rows
EndStationRebuild ==
    /\ pc = "vars"
    /\ ~(vi < Len(IMPUTE_VARS))
    /\ results' = Append(results, WithMethods(df_station, methods))
    /\ profiles' = build_diurnal_profiles(
                        Concat(results')
                        \o SelectSeq(df, LAMBDA r:
                               \E k \in (si + 2)..Len(stations) :
                                   r.station = stations[k]))
    /\ si' = si + 1
    /\ pc' = "stations"
    /\ UNCHANGED hw_vars
    /\ UNCHANGED <<raw, df, stations, df_station, methods, vi,
                   is_missing, gaps, gi, last, df_out, first_out, run>>

\* "for var in IMPUTE_VARS" is exhausted: impute_station returns and main
\* appends the frame to results
EndStation ==
    /\ pc = "vars"
    /\ ~(vi < Len(IMPUTE_VARS))
    /\ results' = Append(results, WithMethods(df_station, methods))
    /\ si' = si + 1
    /\ pc' = "stations"
    /\ UNCHANGED hw_vars
    /\ UNCHANGED <<raw, df, profiles, stations, df_station, methods, vi,
                   is_missing, gaps, gi, last, df_out, first_out, run>>

\* df_out = pd.concat(results); df_out.sort_values(["station", "date"])
ConcatResults ==
    /\ pc = "stations"
    /\ ~(si < Len(stations))
    /\ results # <<>>
    /\ df_out' = SortRows(Concat(results))
    /\ pc' = "done"
    /\ UNCHANGED hw_vars
    /\ UNCHANGED <<raw, df, profiles, stations, si, df_station, methods, vi,
                   is_missing, gaps, gi, last, results, first_out, run>>

\* pd.concat([]) raises ValueError: a frame without rows ends main
ConcatNothing ==
    /\ pc = "stations"
    /\ ~(si < Len(stations))
    /\ results = <<>>
    /\ pc' = "error"
    /\ UNCHANGED hw_vars
    /\ UNCHANGED <<raw, df, profiles, stations, si, df_station, methods, vi,
                   is_missing, gaps, gi, last, results, df_out, first_out, run>>

\* the engine is run again on its own output: profile build, then
\* impute_station on every station, with df_out as the frame
RunAgain ==
    /\ pc = "done"
    /\ run = 1
    /\ first_out' = df_out
    /\ df' = df_out
    /\ run' = 2
    /\ results' = <<>>
    /\ stations' = <<>>
    /\ si' = 0
    /\ last' = NoGap
    /\ pc' = "profiles"
    /\ UNCHANGED hw_vars
    /\ UNCHANGED <<raw, profiles, df_station, methods, vi, is_missing, gaps,
                   gi, df_out>>

Next ==
    \/ Load
    \/ BuildProfiles
    \/ BeginStation
    \/ ScanVar
    \/ SkipLongGap
    \/ StrategyA
    \/ StrategyANoBoundary
    \/ StrategyB
    \/ StrategyBNoProfile
    \/ EndVar
    \/ EndStation
    \/ ConcatResults
    \/ ConcatNothing

Spec == Init /\ [][Next]_vars

\* the engine, and the engine once more on its own output
NextRerun == Next \/ RunAgain

SpecRerun == Init /\ [][NextRerun]_vars

----------------------------------------------------------------------------
(* find_gaps on its own, on every mask of up to MaxMaskLen positions *)

InitGaps ==
    /\ is_missing \in UNION {Masks(n) : n \in 0..MaxMaskLen}
    /\ gaps = <<>>
    /\ pc = "find_gaps"
    /\ raw = <<>>
    /\ df = <<>>
    /\ profiles = <<>>
    /\ stations = <<>>
    /\ si = 0
    /\ df_station = <<>>
    /\ methods = <<>>
    /\ vi = 0
    /\ gi = 0
    /\ last = NoGap
    /\ results = <<>>
    /\ df_out = <<>>
    /\ first_out = <<>>
    /\ run = 1
    /\ HeatwaveIdle

\* gaps = find_gaps(is_missing)
CallFindGaps ==
    /\ pc = "find_gaps"
    /\ gaps' = find_gaps(is_missing)
    /\ pc' = "found"
    /\ UNCHANGED hw_vars
    /\ UNCHANGED <<raw, df, profiles, stations, si, df_station, methods, vi,
                   is_missing, gi, last, results, df_out, first_out, run>>

NextGaps == CallFindGaps

SpecGaps == InitGaps /\ [][NextGaps]_vars

----------------------------------------------------------------------------
(* impute_gap_strategy_b on its own: one gap of one station series, with a
   profile that is drawn freely instead of being built from the series *)

\* a station of BRows hourly rows in which variable var misses the rows
\* start .. start + len - 1
GapSeries(var, k, start, len) ==
    [j \in 1..BRows |->
        [f \in {"station", "date", "month", "hour"} \cup VarSet |->
            CASE f = "station" -> 1
              [] f = "date" -> j - 1
              [] f = "month" -> MonthOf(j - 1)
              [] f = "hour" -> HourOf(j - 1)
              [] OTHER -> IF f = var /\ j - 1 >= start /\ j - 1 < start + len
                          THEN NaN
                          ELSE PatternValue(f, k, j - 1, 0)]]

\* the profiles that give every variable the mean m[h + 1] at hour h
ProfileOf(m) ==
    [var \in VarSet |->
        [key \in {<<1, 1, h>> : h \in 0..(BRows - 1)} |-> m[key[3] + 1]]]

InitB ==
    /\ \E v \in 1..Len(IMPUTE_VARS), k \in 0..(NumPatterns - 1),
          start \in 0..BRows, len \in (ShortGapMax + 1)..BRows :
          /\ start + len <= BRows
          /\ vi = v - 1
          /\ df_station = GapSeries(IMPUTE_VARS[v], k, start, len)
          /\ is_missing = MissingMask(df_station, IMPUTE_VARS[v])
          /\ gaps = find_gaps(is_missing)
    /\ \E m \in [1..BRows -> {NaN, Num(ValueTable.temperature[1]),
                                    Num(ValueTable.temperature[2])}] :
          profiles = ProfileOf(m)
    /\ methods = [p \in 1..BRows |-> <<>>]
    /\ gi = 0
    /\ last = NoGap
    /\ pc = "gaps"
    /\ raw = <<>>
    /\ df = <<>>
    /\ stations = <<1>>
    /\ si = 0
    /\ results = <<>>
    /\ df_out = <<>>
    /\ first_out = <<>>
    /\ run = 1
    /\ HeatwaveIdle

NextB == StrategyB \/ StrategyBNoProfile

SpecB == InitB /\ [][NextB]_vars

----------------------------------------------------------------------------
(* Vocabulary of the properties *)

\* the maximal runs of TRUE of a mask, as (start, length) pairs, 0-based:
\* a run starts at a TRUE position that has no TRUE position before it and
\* ends before the first FALSE position or the end of the mask
MaximalRuns(mask) ==
    LET n == Len(mask)
        starts == {b \in 0..(n - 1) : mask[b + 1] /\ (b = 0 \/ ~mask[b])}
        len(b) == CHOOSE l \in 1..(n - b) :
                      /\ \A p \in b..(b + l - 1) : mask[p + 1]
                      /\ b + l = n \/ ~mask[b + l + 1]
    IN  {<<b, len(b)>> : b \in starts}

\* the positions a (start, length) pair covers
Range(g) == g[1]..(g[1] + g[2] - 1)

\* the length of the maximal run of missing values of column var of rows
\* that holds position p; 0 if the cell at p is valid
GapLengthAt(rows, var, p) ==
    LET runs == {g \in MaximalRuns(MissingMask(rows, var)) : p \in Range(g)}
    IN  IF runs = {} THEN 0 ELSE (CHOOSE g \in runs : TRUE)[2]

\* the entries of a row's impute_method that belong to variable var
EntriesOf(tags, var) ==
    {j \in DOMAIN tags : tags[j] \in {Tag(var, "A"), Tag(var, "B")}}

\* impute_station is at work on a station
Imputing == pc \in {"vars", "gaps"}

\* the rows impute_station was called with
StationInput == RowsOf(df, stations[si + 1])

\* the variable and the positions of the gap iteration that ran last
LastRange == last.start..(last.start + last.length - 1)

\* the gap iteration that ran last had a row before / after the gap
LastHasBefore == last.start > 0

LastHasAfter == last.start + last.length < Len(df_station)

----------------------------------------------------------------------------
(* C9 *)

\* C9: find_gaps returns exactly the maximal runs of consecutive True
\* positions of the mask, as (start, length) pairs in strictly increasing
\* start order; each has length >= 1, no two overlap or are adjacent, their
\* ranges together are the set of True positions, and the empty mask gives
\* the empty list.
FindGapsReturnsMaximalRuns ==
    pc = "found" =>
        /\ {gaps[j] : j \in DOMAIN gaps} = MaximalRuns(is_missing)
        /\ \A j \in DOMAIN gaps : gaps[j][2] >= 1
        /\ \A j \in 1..(Len(gaps) - 1) :
                gaps[j][1] + gaps[j][2] < gaps[j + 1][1]
        /\ UNION {Range(gaps[j]) : j \in DOMAIN gaps}
                = {p \in 0..(Len(is_missing) - 1) : is_missing[p + 1]}
        /\ is_missing = <<>> => gaps = <<>>

\* find_gaps has returned two gaps, one of them longer than one position
FindGapsWitness ==
    /\ pc = "found"
    /\ Len(gaps) = 2
    /\ gaps[1][2] >= 2

----------------------------------------------------------------------------
(* C3 *)

\* no cell of a run of more than LongGapMax missing values of inp is written
\* in out, and no row of such a run carries an entry for the variable
LongRunsUntouched(inp, out, tags) ==
    Len(inp) > LongGapMax =>
      \A var \in VarSet :
        \A g \in MaximalRuns(MissingMask(inp, var)) :
            g[2] > LongGapMax =>
                \A p \in Range(g) :
                    /\ isnan(out[p + 1][var])
                    /\ EntriesOf(tags[p + 1], var) = {}

\* C3: impute_station writes no cell of a maximal run of more than 24
\* missing values and records no provenance entry for the variable at any of
\* its positions: during the station's imputation and in the frame returned.
LongGapsNeverTouched ==
    /\ Imputing => LongRunsUntouched(StationInput, df_station, methods)
    /\ pc = "stations" =>
          \A k \in DOMAIN results :
              LongRunsUntouched(RowsOf(df, stations[k]), results[k],
                                [p \in DOMAIN results[k] |->
                                    results[k][p].impute_method])

\* a gap of more than 24 rows with a valid row on each side has been skipped
\* although the profile has data for one of its hours
LongGapWitness ==
    /\ pc = "gaps"
    /\ last.strategy = "skip"
    /\ last.length > LongGapMax
    /\ LastHasAfter
    /\ \E p \in LastRange :
          ~isnan(ProfileGet(profiles, last.var, KeyOf(df_station[p + 1])))

----------------------------------------------------------------------------
(* C4 *)

\* C4: after Strategy A has filled a gap of length L in {1, 2} that has a
\* row on each side, the cell at gap position k (k = 1..L) holds
\* before + k * (after - before) / (L + 1); it lies between before and after
\* and equals one of them only when the two are equal; its row is tagged A.
\* (The readings are cleaned ones: rh in [0, 100], wind_speed >= 0.)
StrategyAInterpolates ==
    (pc = "gaps" /\ last.strategy = "A" /\ LastHasBefore /\ LastHasAfter) =>
        LET var == last.var
            L == last.length
            before == df_station[last.start][var]
            after == df_station[last.start + L + 1][var]
            lo == IF RLess(after, before) THEN after ELSE before
            hi == IF RLess(after, before) THEN before ELSE after
        IN  \A k \in 1..L :
                LET cell == df_station[last.start + k][var]
                IN  /\ cell = RAdd(before,
                                   RDivInt(RMul(Num(k), RSub(after, before)),
                                           L + 1))
                    /\ RLeq(lo, cell) /\ RLeq(cell, hi)
                    /\ (cell = before \/ cell = after) => before = after
                    /\ Tag(var, "A") \in
                          {methods[last.start + k][j] :
                              j \in DOMAIN methods[last.start + k]}

\* Strategy A has filled a gap of two rows between two different readings
StrategyAInterpolatesWitness ==
    /\ pc = "gaps"
    /\ last.strategy = "A"
    /\ last.length = 2
    /\ LastHasBefore
    /\ LastHasAfter
    /\ last.before_val # last.after_val

----------------------------------------------------------------------------
(* C5 *)

\* C5: after Strategy A has filled a gap of length 1 or 2 that touches the
\* first or the last row of the series (one boundary value only), every cell
\* of the gap holds exactly that boundary value and its row is tagged A, for
\* every configured variable.
StrategyAFlatFill ==
    (pc = "gaps" /\ last.strategy = "A" /\ (LastHasBefore # LastHasAfter)) =>
        LET var == last.var
            boundary == IF LastHasBefore
                        THEN df_station[last.start][var]
                        ELSE df_station[last.start + last.length + 1][var]
        IN  /\ ~isnan(boundary)
            /\ \A p \in LastRange :
                  /\ df_station[p + 1][var] = boundary
                  /\ Tag(var, "A") \in
                        {methods[p + 1][j] : j \in DOMAIN methods[p + 1]}

\* Strategy A has filled a one-row gap at the start of a series from the
\* reading after it
StrategyAFlatFillWitness ==
    /\ pc = "gaps"
    /\ last.strategy = "A"
    /\ last.start = 0
    /\ last.length = 1
    /\ LastHasAfter
    /\ df_station[1][last.var] = df_station[2][last.var]

----------------------------------------------------------------------------
(* C6 *)

\* the profile value for variable var at row p (0-based) of df_station
ProfileAt(var, p) == ProfileGet(profiles, var, KeyOf(df_station[p + 1]))

\* the offset at boundary row p of the gap that ran last: the reading there
\* minus the profile value there, absent (NaN) when the row does not exist or
\* either term is absent
OffsetAt(var, exists, p) ==
    IF exists /\ ~isnan(df_station[p + 1][var]) /\ ~isnan(ProfileAt(var, p))
    THEN RSub(df_station[p + 1][var], ProfileAt(var, p))
    ELSE NaN

\* C6: for a gap of length L, 3 <= L <= 24, and every position i (0-based)
\* whose profile value exists, the value impute_gap_strategy_b computes before
\* clipping is profile[i] + w_i * before_offset + (1 - w_i) * after_offset
\* with w_i = 1 - i / (L - 1) when both offsets are present, profile[i] plus
\* the one present offset when exactly one is, and profile[i] when none is.
StrategyBFormula ==
    (pc = "gaps" /\ last.strategy = "B") =>
        LET var == last.var
            L == last.length
            before_offset == OffsetAt(var, LastHasBefore, last.start - 1)
            after_offset == OffsetAt(var, LastHasAfter, last.start + L)
        IN  /\ L > ShortGapMax /\ L <= LongGapMax
            /\ \A i \in 0..(L - 1) :
                  LET prof == ProfileAt(var, last.start + i)
                      w == Frac(L - 1 - i, L - 1)
                  IN  ~isnan(prof) =>
                        last.result[i + 1] =
                            IF ~isnan(before_offset) /\ ~isnan(after_offset)
                            THEN RAdd(prof,
                                      RAdd(RMul(w, before_offset),
                                           RMul(RSub(Num(1), w), after_offset)))
                            ELSE IF ~isnan(before_offset)
                                 THEN RAdd(prof, before_offset)
                            ELSE IF ~isnan(after_offset)
                                 THEN RAdd(prof, after_offset)
                            ELSE prof

\* Strategy B has filled a gap with profile data at every position and two
\* different offsets at its two boundaries, so that the blend is a ramp
StrategyBFormulaWitness ==
    /\ pc = "gaps"
    /\ last.strategy = "B"
    /\ ~isnan(last.before_offset)
    /\ ~isnan(last.after_offset)
    /\ last.before_offset # last.after_offset
    /\ \A j \in DOMAIN last.profile_vals : ~isnan(last.profile_vals[j])

----------------------------------------------------------------------------
(* C7 *)

\* C7: in a Strategy-B gap each position is resolved on its own: a position
\* without profile data keeps its missing marker, every position with
\* profile data is filled; the gap as a whole is skipped, with no cell
\* written and no tag recorded, only when no position has profile data.
StrategyBPerPosition ==
    /\ (pc = "gaps" /\ last.strategy = "B") =>
          /\ \A p \in LastRange :
                isnan(df_station[p + 1][last.var])
                    <=> isnan(ProfileAt(last.var, p))
          /\ \E p \in LastRange : ~isnan(ProfileAt(last.var, p))
    /\ (pc = "gaps" /\ last.strategy = "skip"
            /\ last.length > ShortGapMax /\ last.length <= LongGapMax) =>
          \A p \in LastRange :
              /\ isnan(ProfileAt(last.var, p))
              /\ isnan(df_station[p + 1][last.var])
              /\ EntriesOf(methods[p + 1], last.var) = {}

\* Strategy B has filled one position of a gap and left another one missing
StrategyBPerPositionWitness ==
    /\ pc = "gaps"
    /\ last.strategy = "B"
    /\ \E p \in LastRange : isnan(df_station[p + 1][last.var])
    /\ \E p \in LastRange : ~isnan(df_station[p + 1][last.var])

----------------------------------------------------------------------------
(* C2 *)

\* C2: every value imputation writes into the rh column lies in [0, 100] and
\* every value it writes into the wind_speed column is >= 0, under Strategy A
\* and Strategy B alike; an rh sum of profile and offset above 100 is written
\* as exactly 100.
FilledValuesWithinBounds ==
    /\ Imputing =>
          \A p \in DOMAIN df_station :
              /\ (isnan(StationInput[p].rh) /\ ~isnan(df_station[p].rh)) =>
                    /\ RLeq(Num(0), df_station[p].rh)
                    /\ RLeq(df_station[p].rh, Num(100))
              /\ (isnan(StationInput[p].wind_speed)
                    /\ ~isnan(df_station[p].wind_speed)) =>
                    RLeq(Num(0), df_station[p].wind_speed)
    /\ (pc = "gaps" /\ last.strategy = "B" /\ last.var = "rh") =>
          \A j \in 1..last.length :
              RLess(Num(100), last.result[j]) =>
                  df_station[last.start + j].rh = Num(100)

\* Strategy B has computed an rh value above 100 and written 100
FilledValuesWithinBoundsWitness ==
    /\ pc = "gaps"
    /\ last.strategy = "B"
    /\ last.var = "rh"
    /\ \E j \in 1..last.length :
          /\ RLess(Num(100), last.result[j])
          /\ df_station[last.start + j].rh = Num(100)

----------------------------------------------------------------------------
(* C1 *)

\* the strategy letter of a gap of the given length
LetterFor(length) == IF length <= 2 THEN "A" ELSE "B"

\* C1: in the frame impute_station returns, for every row and variable: a
\* cell that was missing on input and is valid on output has exactly one
\* entry "variable:X" in the row's impute_method, X = A for a gap of length
\* 1-2 and B for a gap of length 3-24; a cell that was not filled (never
\* missing, or still missing) has no entry for the variable.
ProvenanceMatchesFills ==
    pc = "stations" =>
        \A k \in DOMAIN results :
            LET inp == RowsOf(df, stations[k])
                out == results[k]
            IN  \A p \in DOMAIN out : \A var \in VarSet :
                    LET entries == EntriesOf(out[p].impute_method, var)
                    IN  IF isnan(inp[p][var]) /\ ~isnan(out[p][var])
                        THEN /\ Cardinality(entries) = 1
                             /\ \A j \in entries :
                                   out[p].impute_method[j] =
                                       Tag(var, LetterFor(
                                           GapLengthAt(inp, var, p - 1)))
                        ELSE entries = {}

----------------------------------------------------------------------------
(* C8 *)

\* C8 as claimed: the second run of the engine, on the output of the first,
\* changes no cell of a configured variable.
RerunChangesNothing ==
    (pc = "done" /\ run = 2) =>
        \A j \in DOMAIN df_out : \A var \in VarSet :
            df_out[j][var] = first_out[j][var]

\* C8, amended: the second run changes no cell that is valid after the first
\* run, and leaves missing every cell of a run of more than 24 missing values
\* of the first run's output.  (A cell of a shorter run that the first run
\* left missing may be filled by the second.)
RerunKeepsValidCells ==
    (pc = "done" /\ run = 2) =>
        /\ Len(df_out) = Len(first_out)
        /\ \A j \in DOMAIN df_out : \A var \in VarSet :
              ~isnan(first_out[j][var]) => df_out[j][var] = first_out[j][var]
        /\ \A st \in {stations[k] : k \in DOMAIN stations} :
              LongRunsUntouched(RowsOf(first_out, st), RowsOf(df_out, st),
                                [p \in DOMAIN RowsOf(df_out, st) |->
                                    RowsOf(df_out, st)[p].impute_method])

\* the second run has ended; it has kept a cell the first run had filled and
\* has filled a cell the first run had left missing
RerunWitness ==
    /\ pc = "done"
    /\ run = 2
    /\ \E j \in DOMAIN df_out : \E var \in VarSet :
          /\ EntriesOf(first_out[j].impute_method, var) # {}
          /\ ~isnan(first_out[j][var])
          /\ df_out[j][var] = first_out[j][var]
    /\ \E j \in DOMAIN df_out : \E var \in VarSet :
          isnan(first_out[j][var]) /\ ~isnan(df_out[j][var])

----------------------------------------------------------------------------
(* C10 *)

\* the dates of station st in the order of the file
DatesInFile(st) ==
    LET rows == SelectSeq(raw, LAMBDA r: r.station = st)
    IN  [j \in DOMAIN rows |-> rows[j].date]

\* some station's timestamps do not strictly increase through the file (out
\* of order, or duplicated), or the input has no rows
MalformedInput ==
    \/ raw = <<>>
    \/ \E st \in {raw[j].station : j \in DOMAIN raw} :
          \E j \in 1..(Len(DatesInFile(st)) - 1) :
              DatesInFile(st)[j] >= DatesInFile(st)[j + 1]

\* C10: on a station series with non-monotonic or duplicate timestamps, or
\* with zero rows, the engine stops before any gap is processed: it writes
\* no cell, records no tag and produces no output.
MalformedInputRejected ==
    MalformedInput =>
        /\ last.strategy \notin {"A", "B"}
        /\ results = <<>>
        /\ df_out = <<>>

----------------------------------------------------------------------------
(* impute_station as a function of its two arguments *)

\* one iteration of "for start, length in gaps" for the gap g of variable
\* var, on s = [rows: the working copy, meths: the methods list]
GapIteration(s, var, g, prof) ==
    LET start == g[1]
        length == g[2]
        n == Len(s.rows)
        before_val == IF start > 0 THEN s.rows[start][var] ELSE NaN
        after_val == IF start + length < n
                     THEN s.rows[start + length + 1][var] ELSE NaN
        interp == [j \in 1..length |->
                     EnforceBounds(var,
                         StrategyAValue(before_val, after_val, length, j))]
        filled == impute_gap_strategy_b(s.rows, Indices(start, length), var,
                                        prof)
    IN  IF TooLong(length) THEN s
        ELSE IF IsShort(length)
             THEN IF isnan(before_val) /\ isnan(after_val) THEN s
                  ELSE [rows |-> WriteCells(s.rows, var, start, interp),
                        meths |-> RecordMethod(s.meths, start, length,
                                               Tag(var, "A"))]
        ELSE IF AllNaN(filled) THEN s
        ELSE [rows |-> WriteCells(s.rows, var, start, filled),
              meths |-> RecordMethod(s.meths, start, length, Tag(var, "B"))]

\* "for start, length in gaps"
RECURSIVE GapLoop(_, _, _, _)
GapLoop(s, var, gs, prof) ==
    IF gs = <<>> THEN s
    ELSE GapLoop(GapIteration(s, var, gs[1], prof), var, Tail(gs), prof)

\* "for var in IMPUTE_VARS": the gaps of a variable are found once, before
\* its first gap is processed
RECURSIVE VarLoop(_, _, _)
VarLoop(s, vs, prof) ==
    IF vs = <<>> THEN s
    ELSE VarLoop(GapLoop(s, vs[1], find_gaps(MissingMask(s.rows, vs[1])), prof),
                 Tail(vs), prof)

\* the frame impute_station(st_rows, prof) returns
impute_station(st_rows, prof) ==
    LET s == VarLoop([rows |-> st_rows,
                      meths |-> [p \in DOMAIN st_rows |-> <<>>]],
                     IMPUTE_VARS, prof)
    IN  WithMethods(s.rows, s.meths)

----------------------------------------------------------------------------
(* The engine on the frames in which several variables have gaps *)

\* the small frames in which every variable has the gaps of the mask, in the
\* same rows, and the long frames of value pattern 0
OverlapFrames ==
    {SmallFrame(c) : c \in {c \in SmallConfigs : c.others = "same"}}
        \cup {LongFrame(c) : c \in {c \in LongConfigs : c.pattern = 0}}
        \cup {<<>>}

InitOverlap ==
    /\ raw \in OverlapFrames
    /\ df = <<>>
    /\ profiles = <<>>
    /\ stations = <<>>
    /\ si = 0
    /\ df_station = <<>>
    /\ methods = <<>>
    /\ vi = 0
    /\ is_missing = <<>>
    /\ gaps = <<>>
    /\ gi = 0
    /\ last = NoGap
    /\ results = <<>>
    /\ df_out = <<>>
    /\ first_out = <<>>
    /\ run = 1
    /\ HeatwaveIdle
    /\ pc = "load"

SpecOverlap == InitOverlap /\ [][Next]_vars

----------------------------------------------------------------------------
(* C11 *)

\* a reading every configured variable may take
OtherReading == Num(50)

\* the ways a column is overwritten: all missing, all valid, every sixth row
\* missing, one run of four rows missing
ColumnKinds == {"nan", "const", "sixth", "block"}

ColumnCell(kind, p) ==
    CASE kind = "nan" -> NaN
      [] kind = "const" -> OtherReading
      [] kind = "sixth" -> IF p % 6 = 0 THEN NaN ELSE OtherReading
      [] OTHER -> IF p >= 1 /\ p <= 4 THEN NaN ELSE OtherReading

\* the series that agree with rows on the timestamps and on column var and
\* have the other configured columns overwritten
OtherColumnsAltered(rows, var) ==
    {[p \in DOMAIN rows |->
        [f \in DOMAIN rows[p] |->
            IF f \in VarSet \ {var} THEN ColumnCell(kinds[f], p - 1)
            ELSE rows[p][f]]] : kinds \in [VarSet \ {var} -> ColumnKinds]}

\* profiles that agree with prof on variable var and give the other
\* variables the same mean at every key
OtherProfilesAltered(prof, var) ==
    [w \in VarSet |->
        IF w = var THEN prof[w]
        ELSE [key \in DOMAIN prof[w] |-> OtherReading]]

\* the entries of variable var in the impute_method of a row
TagsOf(row, var) ==
    {row.impute_method[j] : j \in EntriesOf(row.impute_method, var)}

\* the frame impute_station returned last, and the rows it was called with
LastReturned == results[Len(results)]

LastCalledWith == RowsOf(df, stations[Len(results)])

\* C11: variables are imputed independently within a station.  The frame
\* impute_station returned is the function impute_station of the station's
\* rows and the profiles; and on every series that agrees with these rows on
\* the timestamps and on the column of variable v, with the same profile for
\* v, but differs in the other variables' columns, that function gives the
\* same values of v and the same set of "v:strategy" entries at every row.
VariablesImputedIndependently ==
    (pc = "stations" /\ results # <<>>) =>
        /\ LastReturned = impute_station(LastCalledWith, profiles)
        /\ \A v \in VarSet :
              \A alt \in OtherColumnsAltered(LastCalledWith, v) :
                  LET out == impute_station(alt, OtherProfilesAltered(profiles, v))
                  IN  /\ Len(out) = Len(LastReturned)
                      /\ \A p \in DOMAIN out :
                            /\ out[p][v] = LastReturned[p][v]
                            /\ TagsOf(out[p], v) = TagsOf(LastReturned[p], v)

\* impute_station has returned a frame in which a cell of one variable was
\* filled in a row where another variable was missing on input, one of the
\* two by Strategy B
VariablesImputedIndependentlyWitness ==
    /\ pc = "stations"
    /\ results # <<>>
    /\ \E p \in DOMAIN LastReturned : \E v, w \in VarSet :
          /\ v # w
          /\ isnan(LastCalledWith[p][v])
          /\ ~isnan(LastReturned[p][v])
          /\ isnan(LastCalledWith[p][w])
          /\ Tag(v, "B") \in TagsOf(LastReturned[p], v)

----------------------------------------------------------------------------
(* C12 *)

\* the profiles are in use: they are built and main has not ended
ProfilesInUse == pc \in {"stations", "vars", "gaps", "done"}

\* the valid readings of variable var that frame holds for group key
ObservedIn(frame, var, key) ==
    {frame[j][var] : j \in {j \in DOMAIN frame :
                               KeyOf(frame[j]) = key /\ ~isnan(frame[j][var])}}

\* C12: the diurnal profile is a one-shot read-only snapshot.  In every state
\* from the end of the profile build on (before the first station is imputed,
\* during every gap of every variable and station, and at the end) the
\* profiles are the ones built from the readings observed in the input: a
\* group mean lies between the least and the greatest observed reading of
\* its group and is absent for a group without one, whatever has been filled
\* since.
ProfileIsSnapshot ==
    ProfilesInUse =>
        LET observed == load_and_clean(raw)
        IN  /\ profiles = build_diurnal_profiles(observed)
            /\ \A var \in VarSet : \A key \in DOMAIN profiles[var] :
                  LET obs == ObservedIn(observed, var, key)
                      mean == profiles[var][key]
                  IN  /\ isnan(mean) <=> obs = {}
                      /\ ~isnan(mean) =>
                            /\ \E x \in obs : RLeq(x, mean)
                            /\ \E x \in obs : RLeq(mean, x)

\* a gap has been filled with a value that differs from the profile mean of
\* its group, which a rebuilt profile would therefore reflect, and a further
\* station is still to be imputed
ProfileIsSnapshotWitness ==
    /\ pc = "gaps"
    /\ last.strategy \in {"A", "B"}
    /\ si + 1 < Len(stations)
    /\ \E p \in LastRange :
          /\ ~isnan(df_station[p + 1][last.var])
          /\ ~isnan(ProfileAt(last.var, p))
          /\ df_station[p + 1][last.var] # ProfileAt(last.var, p)

----------------------------------------------------------------------------
(* C13 *)

\* out has the rows of inp in the same number and order, and differs from
\* inp only in cells of configured variables that were missing in inp and
\* belong to a run of at most LongGapMax missing values
OnlyGapCellsWritten(inp, out) ==
    /\ Len(out) = Len(inp)
    /\ \A p \in DOMAIN inp : \A f \in DOMAIN inp[p] :
          out[p][f] # inp[p][f] =>
              /\ f \in VarSet
              /\ isnan(inp[p][f])
              /\ GapLengthAt(inp, f, p - 1) \in 1..LongGapMax

\* C13: impute_station writes only cells that were missing on input and
\* belong to a gap of at most 24 rows of a configured variable.  While it
\* runs and in the frame it returns, every cell that was valid on input
\* holds the same value, the rows are the same in number and order, the
\* columns other than the configured variables are unchanged, the only new
\* column is impute_method, and the frame of the caller is the one loaded.
OnlyGapCellsChange ==
    /\ Imputing =>
          /\ OnlyGapCellsWritten(StationInput, df_station)
          /\ \A p \in DOMAIN df_station :
                DOMAIN df_station[p] = DOMAIN StationInput[p]
          /\ df = load_and_clean(raw)
    /\ (pc = "stations" /\ results # <<>>) =>
          /\ OnlyGapCellsWritten(LastCalledWith, LastReturned)
          /\ \A p \in DOMAIN LastReturned :
                DOMAIN LastReturned[p]
                    = DOMAIN LastCalledWith[p] \cup {"impute_method"}
          /\ df = load_and_clean(raw)

\* impute_station has returned a frame in which a missing cell is filled
\* next to a cell that was valid on input, and another cell is still missing
OnlyGapCellsChangeWitness ==
    /\ pc = "stations"
    /\ results # <<>>
    /\ \E var \in VarSet : \E p \in 1..(Len(LastReturned) - 1) :
          /\ isnan(LastCalledWith[p][var])
          /\ ~isnan(LastReturned[p][var])
          /\ ~isnan(LastCalledWith[p + 1][var])
          /\ LastReturned[p + 1][var] = LastCalledWith[p + 1][var]
    /\ \E var \in VarSet : \E p \in DOMAIN LastReturned :
          isnan(LastReturned[p][var])

----------------------------------------------------------------------------
(* heatwave_detect.py *)

\* Days are counted from 30 December 2015 (day 0), so that the series runs
\* over the turn of the year.

\* Timestamp.dayofyear of day d
DayOfYear(d) == IF d <= 1 THEN 364 + d ELSE d - 1

\* strftime("%Y-%m-%d") of day d, as its three fields
DateOf(d) == IF d <= 1 THEN <<2015, 12, 30 + d>> ELSE <<2016, 1, d - 1>>

\* round(x, 2): to the nearest hundredth, a tie to the even one
Round2(x) ==
    IF isnan(x) THEN NaN
    ELSE LET q == (100 * x[1]) \div x[2]
             r == 100 * x[1] - q * x[2]
             up == 2 * r > x[2] \/ (2 * r = x[2] /\ q % 2 = 1)
         IN  Frac(IF up THEN q + 1 ELSE q, 100)

\* max(temps)
RECURSIVE MaxSeq(_)
MaxSeq(t) ==
    IF Len(t) = 1 THEN t[1]
    ELSE LET m == MaxSeq(Tail(t)) IN IF RLess(m, t[1]) THEN t[1] ELSE m

\* load_daily from the grouped counts, maxima and minima on: the days with
\* fewer than MIN_HOURLY readings are dropped, doy is added
load_daily(grp) ==
    LET kept == SelectSeq(grp, LAMBDA g: g.count >= MIN_HOURLY)
    IN  [j \in DOMAIN kept |->
            [station |-> kept[j].station, day |-> kept[j].day,
             tmax |-> kept[j].tmax, tmin |-> kept[j].tmin,
             doy |-> DayOfYear(kept[j].day)]]

\* thresholds[stn][key][doy - 1], None being held as NaN
ThresholdAt(thr, stn, key, doy) == thr[stn][key][doy]

\* the entry of rows for the row r of stn_df
FlagRow(r, thr) ==
    LET ctx_thresh == ThresholdAt(thr, r.station, "ctx", r.doy)
        ctn_thresh == ThresholdAt(thr, r.station, "ctn", r.doy)
    IN  [date |-> DateOf(r.day),
         tmax |-> Round2(r.tmax),
         tmin |-> Round2(r.tmin),
         ctx_threshold |-> ctx_thresh,
         ctn_threshold |-> ctn_thresh,
         ctx_exceeded |-> IF ~isnan(ctx_thresh) THEN RLess(ctx_thresh, r.tmax)
                          ELSE FALSE,
         ctn_exceeded |-> IF ~isnan(ctn_thresh) THEN RLess(ctn_thresh, r.tmin)
                          ELSE FALSE]

\* stn_df = daily[daily["station"] == stn].sort_values("day"); daily is in
\* the order of the groupby keys (station, day), so the sort keeps the order
StnDf(frame, stn) == SelectSeq(frame, LAMBDA r: r.station = stn)

\* "for hw_type, flag_key, temp_key in [...]"
HwTypes ==
    <<[hw_type |-> "daytime", flag_key |-> "ctx_exceeded", temp_key |-> "tmax"],
      [hw_type |-> "nighttime", flag_key |-> "ctn_exceeded", temp_key |-> "tmin"]>>

\* the event appended for a run of rows
EventOf(stn, t, run_rows) ==
    LET temps == [j \in DOMAIN run_rows |-> run_rows[j][t.temp_key]]
    IN  [station |-> stn,
         type |-> t.hw_type,
         start_date |-> run_rows[1].date,
         end_date |-> run_rows[Len(run_rows)].date,
         duration |-> Len(run_rows),
         peak_temp |-> Round2(MaxSeq(temps)),
         mean_temp |-> Round2(RDivInt(SumSeq(temps), Len(temps)))]

\* "if len(run) >= HW_MIN_DAYS: events.append(...)"
Flush(evs, stn, t, run_rows) ==
    IF Len(run_rows) >= HW_MIN_DAYS THEN Append(evs, EventOf(stn, t, run_rows))
    ELSE evs

\* "for row in rows" from row i on, followed by the flush of the last run
RECURSIVE GroupRows(_, _, _, _, _, _)
GroupRows(rws, i, run_rows, evs, stn, t) ==
    IF i > Len(rws) THEN Flush(evs, stn, t, run_rows)
    ELSE IF rws[i][t.flag_key]
         THEN GroupRows(rws, i + 1, Append(run_rows, rws[i]), evs, stn, t)
         ELSE GroupRows(rws, i + 1, <<>>, Flush(evs, stn, t, run_rows), stn, t)

\* the readings of the input: a day's maximum is at or above the threshold
\* level, its minimum likewise
ThresholdLevel == [tmax |-> Num(31), tmin |-> Num(25)]

\* Station 1 has MaxDays days: day d has MIN_HOURLY readings iff full[d + 1],
\* its maximum is above the level iff hot[d + 1], its minimum iff
\* hot[MaxDays - d].  Station 2 has the days 1..3, complete, with every
\* maximum above the level and every minimum at it.
GroupedInputs ==
    {[j \in 1..MaxDays |->
        [station |-> 1, day |-> j - 1,
         count |-> IF full[j] THEN MIN_HOURLY ELSE MIN_HOURLY - 1,
         tmax |-> IF hot[j] THEN RAdd(ThresholdLevel.tmax, Num(1))
                  ELSE ThresholdLevel.tmax,
         tmin |-> IF hot[MaxDays + 1 - j] THEN RAdd(ThresholdLevel.tmin, Num(1))
                  ELSE ThresholdLevel.tmin]]
     \o [j \in 1..3 |->
        [station |-> 2, day |-> j, count |-> HoursPerDay,
         tmax |-> RAdd(ThresholdLevel.tmax, Num(1)),
         tmin |-> ThresholdLevel.tmin]] :
        full \in Masks(MaxDays), hot \in Masks(MaxDays)}

\* the thresholds of both stations are the levels, on every day of the year
\* of the series; or the same without a threshold for 1 January
ThresholdInputs ==
    {[stn \in {1, 2} |->
        [key \in {"ctx", "ctn"} |->
            [doy \in {DayOfYear(d) : d \in 0..(MaxDays - 1)} |->
                IF hole /\ doy = 1 THEN NaN
                ELSE IF key = "ctx" THEN ThresholdLevel.tmax
                ELSE ThresholdLevel.tmin]]] : hole \in BOOLEAN}

\* the imputation engine is not running
ImputeIdle ==
    /\ raw = <<>>
    /\ df = <<>>
    /\ profiles = <<>>
    /\ df_station = <<>>
    /\ methods = <<>>
    /\ vi = 0
    /\ is_missing = <<>>
    /\ gaps = <<>>
    /\ gi = 0
    /\ last = NoGap
    /\ results = <<>>
    /\ df_out = <<>>
    /\ first_out = <<>>
    /\ run = 1

impute_vars == <<raw, df, profiles, df_station, methods, vi, is_missing, gaps,
                 gi, last, results, df_out, first_out, run>>

\* main of heatwave_detect.py, with the thresholds as given
InitHeatwave ==
    /\ grouped \in GroupedInputs
    /\ thresholds \in ThresholdInputs
    /\ daily = <<>>
    /\ hw_rows = <<>>
    /\ events = <<>>
    /\ ti = 0
    /\ stations = <<>>
    /\ si = 0
    /\ ImputeIdle
    /\ pc = "load_daily"

\* daily = load_daily(INPUT_CSV); detect_heatwaves starts: stations, events
LoadDaily ==
    /\ pc = "load_daily"
    /\ daily' = load_daily(grouped)
    /\ stations' = StationsOf(daily')
    /\ si' = 0
    /\ events' = <<>>
    /\ pc' = "hw_stations"
    /\ UNCHANGED <<grouped, thresholds, hw_rows, ti>>
    /\ UNCHANGED impute_vars

\* "for stn in stations": the rows of the next station with their flags
FlagDays ==
    /\ pc = "hw_stations"
    /\ si < Len(stations)
    /\ LET stn_df == StnDf(daily, stations[si + 1])
       IN  hw_rows' = [j \in DOMAIN stn_df |-> FlagRow(stn_df[j], thresholds)]
    /\ ti' = 0
    /\ pc' = "hw_types"
    /\ UNCHANGED <<grouped, daily, thresholds, events, stations, si>>
    /\ UNCHANGED impute_vars

\* one type of the station: its runs of flagged rows are grouped into events
GroupEvents ==
    /\ pc = "hw_types"
    /\ ti < Len(HwTypes)
    /\ events' = GroupRows(hw_rows, 1, <<>>, events, stations[si + 1],
                           HwTypes[ti + 1])
    /\ ti' = ti + 1
    /\ UNCHANGED <<grouped, daily, thresholds, hw_rows, stations, si, pc>>
    /\ UNCHANGED impute_vars

\* both types are done: on to the next station
NextStation ==
    /\ pc = "hw_types"
    /\ ~(ti < Len(HwTypes))
    /\ si' = si + 1
    /\ pc' = "hw_stations"
    /\ UNCHANGED <<grouped, daily, thresholds, hw_rows, events, ti, stations>>
    /\ UNCHANGED impute_vars

\* "return events, daily_records"
ReturnEvents ==
    /\ pc = "hw_stations"
    /\ ~(si < Len(stations))
    /\ pc' = "hw_done"
    /\ UNCHANGED <<grouped, daily, thresholds, hw_rows, events, ti, stations,
                   si>>
    /\ UNCHANGED impute_vars

NextHeatwave ==
    \/ LoadDaily
    \/ FlagDays
    \/ GroupEvents
    \/ NextStation
    \/ ReturnEvents

SpecHeatwave == InitHeatwave /\ [][NextHeatwave]_vars

----------------------------------------------------------------------------
(* C14 *)

\* the day whose date is date
CalendarDay(date) == CHOOSE d \in 0..(MaxDays - 1) : DateOf(d) = date

\* the daily value of station stn on calendar day d exceeds the threshold
\* of that day: daily has a row for the day, the threshold exists and the
\* value is greater
ExceedsOn(stn, t, d) ==
    \E j \in DOMAIN daily :
        /\ daily[j].station = stn
        /\ daily[j].day = d
        /\ ~isnan(ThresholdAt(thresholds, stn,
                              IF t.temp_key = "tmax" THEN "ctx" ELSE "ctn",
                              DayOfYear(d)))
        /\ RLess(ThresholdAt(thresholds, stn,
                             IF t.temp_key = "tmax" THEN "ctx" ELSE "ctn",
                             DayOfYear(d)),
                 daily[j][t.temp_key])

\* the maximal runs of calendar days on which station stn exceeds
CalendarRuns(stn, t) ==
    MaximalRuns([j \in 1..MaxDays |-> ExceedsOn(stn, t, j - 1)])

\* the events of station stn and type t, as (start day, end day, duration)
EventsOf(stn, t) ==
    {<<CalendarDay(events[j].start_date), CalendarDay(events[j].end_date),
       events[j].duration>> :
        j \in {j \in DOMAIN events : /\ events[j].station = stn
                                      /\ events[j].type = t.hw_type}}

\* C14: for each station and each type (daytime on tmax, nighttime on tmin)
\* the events detect_heatwaves returns are exactly the maximal runs of 3 or
\* more consecutive calendar days on each of which the daily value exceeds
\* the day's threshold: every event has a duration of at least 3, its
\* start_date..end_date spans exactly that many consecutive days, all of
\* them exceeding; a run that reaches the last day is emitted too, and no
\* run of fewer than 3 days is.
HeatwavesAreCalendarRuns ==
    pc = "hw_done" =>
        \A stn \in {grouped[j].station : j \in DOMAIN grouped} :
            \A k \in DOMAIN HwTypes :
                LET t == HwTypes[k]
                IN  /\ EventsOf(stn, t) =
                          {<<g[1], g[1] + g[2] - 1, g[2]>> :
                              g \in {g \in CalendarRuns(stn, t) :
                                        g[2] >= HW_MIN_DAYS}}
                    /\ \A e \in EventsOf(stn, t) :
                          /\ e[3] >= HW_MIN_DAYS
                          /\ e[2] - e[1] + 1 = e[3]
                          /\ \A d \in e[1]..e[2] : ExceedsOn(stn, t, d)

====
